---- MODULE Spec2Model ----
(***************************************************************************)
(* Model of the Confluence tool handlers of                                *)
(* src/src/mcp_atlassian/servers/confluence.py.                            *)
(*                                                                         *)
(* One tool invocation runs at a time.  A handler is split at its fetcher  *)
(* calls: the entry action (named after the tool) runs the write gate,     *)
(* the parameter validation and everything up to the first fetcher call;   *)
(* the fetcher answers (FetcherReturns / FetcherRaises); the tool's        *)
(* _resume action is the rest of the handler from that call on.            *)
(* `calls` is the history of fetcher calls of the current invocation.      *)
(* The context-scoped lookup get_confluence_fetcher(ctx), which opens      *)
(* every handler, is taken to yield the configured fetcher, and            *)
(* to_simplified_dict() to be total on the objects the fetcher returns     *)
(* (get_page_children, which handles its failure, is also run with it      *)
(* failing).                                                               *)
(*                                                                         *)
(* A Python string is a sequence of text fragments whose concatenation it  *)
(* is: single characters wherever the code looks inside the string         *)
(* (queries, page ids), whole literals in the messages it formats.         *)
(***************************************************************************)
EXTENDS Integers, Sequences, FiniteSets, TLC

VARIABLES readOnly, pc, tool, args, calls, ret

vars == <<readOnly, pc, tool, args, calls, ret>>

(***************************************************************************)
(* Bounds of the model.                                                    *)
(***************************************************************************)
\* longest query drawn from QueryAlphabet
MaxQueryLen == 2
\* largest integer page id
MaxPageId == 11
\* longest list a fetcher operation returns
MaxResults == 1

(***************************************************************************)
(* Python values.                                                          *)
(***************************************************************************)
None == [t |-> "none"]
PyStr(s) == [t |-> "str", v |-> s]
PyInt(n) == [t |-> "int", v |-> n]

\* bool(x) of a str | int | None value
Truthy(x) ==
    CASE x.t = "none" -> FALSE
      [] x.t = "str" -> x.v # <<>>
      [] x.t = "int" -> x.v # 0

\* sub in s, for Python strings
Contains(sub, s) ==
    \E i \in 0..(Len(s) - Len(sub)) : SubSeq(s, i + 1, i + Len(sub)) = sub

Digit(d) == <<"0", "1", "2", "3", "4", "5", "6", "7", "8", "9">>[d + 1]

RECURSIVE NatToStr(_)
NatToStr(n) == IF n < 10 THEN <<Digit(n)>> ELSE NatToStr(n \div 10) \o <<Digit(n % 10)>>

\* str(n) of an int
IntToStr(n) == IF n < 0 THEN <<"-">> \o NatToStr(-n) ELSE NatToStr(n)

\* str(x) of a str | int value
StrOf(x) == IF x.t = "int" THEN IntToStr(x.v) ELSE x.v

\* {x} inside an f-string
Fmt(x) == IF x.t = "none" THEN <<"None">> ELSE StrOf(x)

(***************************************************************************)
(* search: query classification and the two CQL rewritings.                *)
(***************************************************************************)
SearchOperatorTokens ==
    { <<"=">>, <<"~">>, <<">">>, <<"<">>,
      <<" ", "A", "N", "D", " ">>,
      <<" ", "O", "R", " ">>,
      <<"c", "u", "r", "r", "e", "n", "t", "U", "s", "e", "r", "(", ")">> }

\* faulty variant: " OR " is missing from the token list of line 90
IsSimpleTermWithoutOr(query) ==
    /\ query # <<>>
    /\ ~ \E x \in SearchOperatorTokens \ {<<" ", "O", "R", " ">>} : Contains(x, query)

\* line 89: `query and not any(x in query for x in [...])`
IsSimpleTerm(query) ==
    /\ query # <<>>
    /\ ~ \E x \in SearchOperatorTokens : Contains(x, query)

Quote == <<"\"">>

\* faulty variant: the fallback repeats the siteSearch query
TextCqlAsSiteSearch(q) ==
    <<"s", "i", "t", "e", "S", "e", "a", "r", "c", "h", " ", "~", " ">> \o Quote \o q \o Quote

\* line 94: f'siteSearch ~ "{original_query}"'
SiteSearchCql(q) ==
    <<"s", "i", "t", "e", "S", "e", "a", "r", "c", "h", " ", "~", " ">> \o Quote \o q \o Quote

\* line 103: f'text ~ "{original_query}"'
TextCql(q) ==
    <<"t", "e", "x", "t", " ", "~", " ">> \o Quote \o q \o Quote

(***************************************************************************)
(* Inputs.                                                                 *)
(***************************************************************************)
QueryAlphabet == {"a", " ", "=", "~", ">", "<"}

RECURSIVE StringsUpTo(_, _)
StringsUpTo(alphabet, n) ==
    IF n = 0 THEN {<<>>}
    ELSE LET shorter == StringsUpTo(alphabet, n - 1)
         IN  shorter \cup {Append(s, c) : s \in shorter, c \in alphabet}

LongQueries ==
    { <<"a", " ", "A", "N", "D", " ", "b">>,
      <<"a", "A", "N", "D", "b">>,
      <<"a", " ", "O", "R", " ", "b">>,
      <<" ", "O", "R">>,
      <<"c", "u", "r", "r", "e", "n", "t", "U", "s", "e", "r", "(", ")">>,
      <<"c", "u", "r", "r", "e", "n", "t", "U", "s", "e", "r", "(">>,
      <<"t", "y", "p", "e", "=", "p", "a", "g", "e">> }

Queries == StringsUpTo(QueryAlphabet, MaxQueryLen) \cup LongQueries

Pages == {"p1", "p2"}

\* lists of at most MaxResults domain objects
RECURSIVE ListsUpTo(_)
ListsUpTo(n) ==
    IF n = 0 THEN {<<>>}
    ELSE LET shorter == ListsUpTo(n - 1)
         IN  shorter \cup {Append(s, p) : s \in shorter, p \in Pages}

ExceptionTypes == {"MCPAtlassianAuthenticationError", "ValueError", "Exception"}

Limits == {1, 10}

\* page_id: str | int | None
PageIds ==
    {None} \cup {PyStr(p) : p \in {<<>>, <<"7">>, <<"1", "2", "3">>}}
           \cup {PyInt(n) : n \in (-1)..MaxPageId}

\* page_id: str, of the tools that take nothing else
PageIdStrings == {<<"7">>, <<"1", "2", "3">>}

\* content_format: str
ContentFormats ==
    {<<"markdown">>, <<"wiki">>, <<"storage">>, <<"bogus">>, <<"Markdown">>, <<>>}

\* position: str
Positions == {<<"before">>, <<"after">>, <<"append">>, <<"sideways">>}

\* parent_id: str | None
ParentIds == {None, PyStr(<<"7">>)}

\* expand: str
Expands ==
    { <<>>,
      <<"v", "e", "r", "s", "i", "o", "n">>,
      <<"b", "o", "d", "y", ".", "s", "t", "o", "r", "a", "g", "e">>,
      <<"v", "e", "r", "s", "i", "o", "n", ",", "b", "o", "d", "y", ".", "v", "i", "e", "w">>,
      <<"b", "o", "d">> }

\* queries of search_user
UserQueries ==
    Queries \cup { <<"u", "s", "e", "r", ".", "x">>,
                   <<"u", "s", "e", "r">>,
                   <<"c", "u", "r", "r", "e", "n", "t", "U", "s", "e", "r", "(", ")">> }

\* title: str | None
Titles == {None, PyStr(<<>>), PyStr(<<"X">>)}

\* space_key: str | None
SpaceKeys == {None, PyStr(<<>>), PyStr(<<"D", "E", "V">>)}
SpacesFilters == {None, PyStr(<<"D", "E", "V">>)}

\* an exception raised by a fetcher operation; str(e) is msg
FetcherExceptions == {[type |-> ty, msg |-> <<"b", "o", "o", "m">>] : ty \in ExceptionTypes}

ListResult(l) == [t |-> "list", v |-> l]
ObjResult(o) == [t |-> "obj", v |-> o]
BoolResult(b) == [t |-> "bool", v |-> b]

\* what each fetcher operation may return
FetcherResults(op) ==
    CASE op \in {"search", "get_page_children", "get_page_ancestors", "get_page_comments",
                 "get_page_labels", "add_page_label", "search_user"}
           -> {ListResult(l) : l \in ListsUpTo(MaxResults)}
      [] op \in {"get_page_content", "get_page_by_title", "add_comment"}
           -> {ObjResult(o) : o \in Pages} \cup {None}
      [] op \in {"move_page_position", "delete_page"}
           -> {BoolResult(b) : b \in BOOLEAN}
      [] OTHER -> {ObjResult(o) : o \in Pages}

\* page.to_simplified_dict()
ToSimplifiedDict(o) == [simplified |-> o]

SimplifiedList(l) == [i \in 1..Len(l) |-> ToSimplifiedDict(l[i])]

(***************************************************************************)
(* The state of an invocation.                                             *)
(***************************************************************************)
NoReturn == [kind |-> "none"]
Returned(payload) == [kind |-> "returned", payload |-> payload]
Raised(exc) == [kind |-> "raised", exc |-> exc]

LastCall == calls[Len(calls)]

\* a new invocation of tool t with arguments a starts
Enter(t, a) ==
    /\ pc = "idle"
    /\ tool' = t
    /\ args' = a
    /\ UNCHANGED readOnly

\* the handler calls confluence_fetcher.<op>(**a) and waits for it
CallFetcher(history, op, a) ==
    /\ calls' = Append(history, [op |-> op, arg |-> a, status |-> "pending",
                                 result |-> [t |-> "pending"]])
    /\ pc' = "await"
    /\ ret' = NoReturn

\* the handler returns json.dumps(payload)
Return(history, payload) ==
    /\ calls' = history
    /\ pc' = "done"
    /\ ret' = Returned(payload)

\* the handler raises exc to its caller
Raise(history, exc) ==
    /\ calls' = history
    /\ pc' = "done"
    /\ ret' = Raised(exc)

\* the handler continues after the fetcher answered
Resume(t) ==
    /\ pc = "ready"
    /\ tool = t
    /\ UNCHANGED <<readOnly, tool, args>>

Init ==
    /\ readOnly \in BOOLEAN
    /\ pc = "idle"
    /\ tool = "none"
    /\ args = [none |-> TRUE]
    /\ calls = <<>>
    /\ ret = NoReturn

(***************************************************************************)
(* The fetcher collaborator: the pending call returns or raises.           *)
(***************************************************************************)
FetcherReturns ==
    /\ pc = "await"
    /\ \E r \in FetcherResults(LastCall.op) :
          calls' = [calls EXCEPT ![Len(calls)] = [@ EXCEPT !.status = "ok", !.result = r]]
    /\ pc' = "ready"
    /\ UNCHANGED <<readOnly, tool, args, ret>>

FetcherRaises ==
    /\ pc = "await"
    /\ \E e \in FetcherExceptions :
          calls' = [calls EXCEPT ![Len(calls)] = [@ EXCEPT !.status = "fail", !.result = e]]
    /\ pc' = "ready"
    /\ UNCHANGED <<readOnly, tool, args, ret>>

(***************************************************************************)
(* search (lines 87-113)                                                   *)
(***************************************************************************)
search ==
    \E query \in Queries, limit \in Limits, spaces_filter \in SpacesFilters :
        /\ Enter("search", [query |-> query, limit |-> limit, spaces_filter |-> spaces_filter])
        /\ IF IsSimpleTerm(query)
           THEN CallFetcher(<<>>, "search", [query |-> SiteSearchCql(query), limit |-> limit,
                                             spaces_filter |-> spaces_filter])
           ELSE CallFetcher(<<>>, "search", [query |-> query, limit |-> limit,
                                             spaces_filter |-> spaces_filter])

\* faulty variant: the siteSearch call is not wrapped in a try block
NoSiteSearchTry == FALSE

\* faulty variant: the fallback is attempted after any failed first call
SiteSearchTryAroundEveryCall == Len(calls) = 1

\* the failed call is the one inside the try block of lines 93-100
InSiteSearchTry == IsSimpleTerm(args.query) /\ Len(calls) = 1

search_resume ==
    /\ Resume("search")
    /\ IF LastCall.status = "ok"
       THEN Return(calls, SimplifiedList(LastCall.result.v))
       ELSE IF InSiteSearchTry
            THEN \* except Exception (line 101): fall back to text search
                 CallFetcher(calls, "search", [query |-> TextCql(args.query),
                                               limit |-> args.limit,
                                               spaces_filter |-> args.spaces_filter])
            ELSE \* no handler around lines 105 and 109: the exception propagates
                 Raise(calls, LastCall.result)

(***************************************************************************)
(* get_page (lines 184-233)                                                *)
(***************************************************************************)
\* line 217
IdentifierRequired ==
    [type |-> "ValueError",
     msg |-> <<"Either 'page_id' OR both 'title' and 'space_key' must be provided.">>]

\* faulty variant: only a string page_id selects the lookup by ID
PageIdGivenStrOnly(page_id) == page_id.t = "str" /\ page_id.v # <<>>

\* line 187: `if page_id:`
PageIdGiven(page_id) == Truthy(page_id)

\* faulty variant: the title alone selects the lookup by title
TitleGiven(title, space_key) == Truthy(title)

\* line 204: `elif title and space_key:`
TitleAndSpaceGiven(title, space_key) == Truthy(title) /\ Truthy(space_key)

\* faulty variant: title and space_key swapped in the message
NotFoundInSpaceSwapped(title, space_key) ==
    [error |-> <<"Page with title '">> \o Fmt(space_key) \o <<"' not found in space '">>
                  \o Fmt(title) \o <<"'.">>]

\* line 211
NotFoundInSpace(title, space_key) ==
    [error |-> <<"Page with title '">> \o Fmt(title) \o <<"' not found in space '">>
                  \o Fmt(space_key) \o <<"'.">>]

\* faulty variant: the cause is left out of the message
FailedByIdWithoutCause(page_id, e) ==
    [error |-> <<"Failed to retrieve page by ID '">> \o Fmt(page_id) \o <<"'">>]

\* line 200
FailedById(page_id, e) ==
    [error |-> <<"Failed to retrieve page by ID '">> \o Fmt(page_id) \o <<"': ">> \o e.msg]

\* line 223
NotFoundWithIdentifiers == [error |-> <<"Page not found with the provided identifiers.">>]

\* lines 228-231
PageResult(page, include_metadata) ==
    IF include_metadata
    THEN [metadata |-> ToSimplifiedDict(page)]
    ELSE [content |-> [value |-> [content_of |-> page]]]

get_page ==
    \E page_id \in PageIds, title \in Titles, space_key \in SpaceKeys,
       include_metadata \in BOOLEAN, convert_to_markdown \in BOOLEAN :
        /\ Enter("get_page", [page_id |-> page_id, title |-> title, space_key |-> space_key,
                              include_metadata |-> include_metadata,
                              convert_to_markdown |-> convert_to_markdown])
        /\ IF PageIdGiven(page_id)
           THEN CallFetcher(<<>>, "get_page_content",
                            [page_id |-> StrOf(page_id),
                             convert_to_markdown |-> convert_to_markdown])
           ELSE IF TitleAndSpaceGiven(title, space_key)
                THEN CallFetcher(<<>>, "get_page_by_title",
                                 [space_key |-> space_key, title |-> title,
                                  convert_to_markdown |-> convert_to_markdown])
                ELSE Raise(<<>>, IdentifierRequired)

get_page_resume ==
    /\ Resume("get_page")
    /\ IF LastCall.op = "get_page_content"
       THEN IF LastCall.status = "fail"
            THEN \* except Exception (line 197)
                 Return(calls, FailedById(args.page_id, LastCall.result))
            ELSE IF LastCall.result.t = "none"
                 THEN Return(calls, NotFoundWithIdentifiers)
                 ELSE Return(calls, PageResult(LastCall.result.v, args.include_metadata))
       ELSE IF LastCall.status = "fail"
            THEN \* no handler around line 205: the exception propagates
                 Raise(calls, LastCall.result)
            ELSE IF LastCall.result.t = "none"
                 THEN Return(calls, NotFoundInSpace(args.title, args.space_key))
                 ELSE Return(calls, PageResult(LastCall.result.v, args.include_metadata))

(***************************************************************************)
(* The write gate.                                                         *)
(***************************************************************************)
\* the tools tagged "write" and "read" in their @confluence_mcp.tool(...) lines
WriteTools ==
    {"move_page_position", "add_label", "create_page", "update_page", "delete_page",
     "add_comment"}

ReadTools ==
    {"search", "get_page", "get_page_children", "get_page_ancestors", "get_space_page_tree",
     "list_spaces", "get_comments", "get_labels", "search_user", "confluence_get_page_views"}

\* faulty variant: the decorator is missing on add_label
WriteGatedWithoutAddLabel ==
    {"move_page_position", "create_page", "update_page", "delete_page", "add_comment"}

\* the tools that carry the @check_write_access decorator
WriteGated ==
    {"move_page_position", "add_label", "create_page", "update_page", "delete_page",
     "add_comment"}

\* what check_write_access raises in a read-only configuration
ReadOnlyError == [type |-> "ValueError", msg |-> <<"Cannot write in read-only mode.">>]

\* check_write_access: the wrapper refuses to run the handler body
check_write_access == readOnly

\* tool t is decorated and the decorator refuses the call
Refused(t) == t \in WriteGated /\ check_write_access

(***************************************************************************)
(* create_page (lines 708-742) and update_page (lines 821-857)             *)
(***************************************************************************)
\* faulty variant: an empty content_format is let through
ValidContentFormatOrEmpty(content_format) ==
    content_format \in {<<"markdown">>, <<"wiki">>, <<"storage">>, <<>>}

\* lines 711 and 824: content_format in ["markdown", "wiki", "storage"]
ValidContentFormat(content_format) ==
    content_format \in {<<"markdown">>, <<"wiki">>, <<"storage">>}

\* lines 712 and 825
InvalidContentFormat(content_format) ==
    [type |-> "ValueError",
     msg |-> <<"Invalid content_format: ">> \o content_format
                \o <<". Must be 'markdown', 'wiki', or 'storage'">>]

\* lines 717-722 and 830-835
IsMarkdown(content_format) == content_format = <<"markdown">>

ContentRepresentation(content_format) ==
    IF content_format = <<"markdown">> THEN None ELSE PyStr(content_format)

\* faulty variant: the caller's value is handed on for every format
HeadingAnchorsAsGiven(content_format, enable_heading_anchors) == enable_heading_anchors

\* lines 730-732 and 845-847
HeadingAnchors(content_format, enable_heading_anchors) ==
    IF content_format = <<"markdown">> THEN enable_heading_anchors ELSE FALSE

create_page ==
    \E parent_id \in ParentIds, content_format \in ContentFormats,
       enable_heading_anchors \in BOOLEAN :
        LET a == [space_key |-> <<"D", "E", "V">>, title |-> <<"X">>, content |-> <<"c">>,
                  parent_id |-> parent_id, content_format |-> content_format,
                  enable_heading_anchors |-> enable_heading_anchors,
                  emoji |-> None, page_width |-> None]
        IN  /\ Enter("create_page", a)
            /\ IF Refused("create_page")
               THEN Raise(<<>>, ReadOnlyError)
               ELSE IF ~ ValidContentFormat(content_format)
                    THEN Raise(<<>>, InvalidContentFormat(content_format))
                    ELSE CallFetcher(<<>>, "create_page",
                            [space_key |-> a.space_key, title |-> a.title, body |-> a.content,
                             parent_id |-> parent_id,
                             is_markdown |-> IsMarkdown(content_format),
                             enable_heading_anchors |->
                                 HeadingAnchors(content_format, enable_heading_anchors),
                             content_representation |-> ContentRepresentation(content_format),
                             emoji |-> a.emoji, page_width |-> a.page_width])

create_page_resume ==
    /\ Resume("create_page")
    /\ IF LastCall.status = "fail"
       THEN \* no handler around line 724: the exception propagates
            Raise(calls, LastCall.result)
       ELSE Return(calls, [message |-> <<"Page created successfully">>,
                           page |-> ToSimplifiedDict(LastCall.result.v)])

update_page ==
    \E page_id \in PageIdStrings, is_minor_edit \in BOOLEAN, parent_id \in ParentIds,
       content_format \in ContentFormats, enable_heading_anchors \in BOOLEAN :
        LET a == [page_id |-> page_id, title |-> <<"X">>, content |-> <<"c">>,
                  is_minor_edit |-> is_minor_edit, version_comment |-> None,
                  parent_id |-> parent_id, content_format |-> content_format,
                  enable_heading_anchors |-> enable_heading_anchors,
                  emoji |-> None, page_width |-> None]
        IN  /\ Enter("update_page", a)
            /\ IF Refused("update_page")
               THEN Raise(<<>>, ReadOnlyError)
               ELSE IF ~ ValidContentFormat(content_format)
                    THEN Raise(<<>>, InvalidContentFormat(content_format))
                    ELSE CallFetcher(<<>>, "update_page",
                            [page_id |-> page_id, title |-> a.title, body |-> a.content,
                             is_minor_edit |-> is_minor_edit,
                             version_comment |-> a.version_comment,
                             is_markdown |-> IsMarkdown(content_format),
                             parent_id |-> parent_id,
                             enable_heading_anchors |->
                                 HeadingAnchors(content_format, enable_heading_anchors),
                             content_representation |-> ContentRepresentation(content_format),
                             emoji |-> a.emoji, page_width |-> a.page_width])

update_page_resume ==
    /\ Resume("update_page")
    /\ IF LastCall.status = "fail"
       THEN \* no handler around line 837: the exception propagates
            Raise(calls, LastCall.result)
       ELSE Return(calls, [message |-> <<"Page updated successfully">>,
                           page |-> ToSimplifiedDict(LastCall.result.v)])

(***************************************************************************)
(* move_page_position (lines 516-536)                                      *)
(***************************************************************************)
move_page_position ==
    \E page_id \in PageIdStrings, position \in Positions, target_id \in PageIdStrings :
        /\ Enter("move_page_position",
                 [page_id |-> page_id, position |-> position, target_id |-> target_id])
        /\ IF Refused("move_page_position")
           THEN Raise(<<>>, ReadOnlyError)
           ELSE CallFetcher(<<>>, "move_page_position",
                            [page_id |-> page_id, position |-> position,
                             target_id |-> target_id])

move_page_position_resume ==
    /\ Resume("move_page_position")
    /\ IF LastCall.status = "ok"
       THEN Return(calls,
                   [success |-> LastCall.result.v,
                    message |-> <<"Successfully moved page ">> \o args.page_id
                                  \o <<" to position '">> \o args.position
                                  \o <<"' relative to ">> \o args.target_id])
       ELSE IF LastCall.result.type = "ValueError"
            THEN Return(calls, [success |-> FALSE, error |-> LastCall.result.msg])
            ELSE Return(calls, [success |-> FALSE,
                                error |-> <<"Failed to move page: ">> \o LastCall.result.msg])

(***************************************************************************)
(* delete_page (lines 881-902)                                             *)
(***************************************************************************)
delete_page ==
    \E page_id \in PageIdStrings :
        /\ Enter("delete_page", [page_id |-> page_id])
        /\ IF Refused("delete_page")
           THEN Raise(<<>>, ReadOnlyError)
           ELSE CallFetcher(<<>>, "delete_page", [page_id |-> page_id])

\* faulty variant: a completed request is reported as a deletion
DeleteResponseIgnoringResult(page_id, result) ==
    [success |-> TRUE,
     message |-> <<"Page ">> \o page_id \o <<" deleted successfully">>]

\* lines 884-893
DeleteResponse(page_id, result) ==
    IF result
    THEN [success |-> TRUE,
          message |-> <<"Page ">> \o page_id \o <<" deleted successfully">>]
    ELSE [success |-> FALSE,
          message |-> <<"Unable to delete page ">> \o page_id
                      \o <<". API request completed but deletion unsuccessful.">>]

\* lines 894-900
DeleteError(page_id, e) ==
    [success |-> FALSE,
     message |-> <<"Error deleting page ">> \o page_id,
     error |-> e.msg]

delete_page_resume ==
    /\ Resume("delete_page")
    /\ IF LastCall.status = "ok"
       THEN Return(calls, DeleteResponse(args.page_id, LastCall.result.v))
       ELSE Return(calls, DeleteError(args.page_id, LastCall.result))

(***************************************************************************)
(* add_comment (lines 932-955)                                             *)
(***************************************************************************)
add_comment ==
    \E page_id \in PageIdStrings :
        /\ Enter("add_comment", [page_id |-> page_id, content |-> <<"c">>])
        /\ IF Refused("add_comment")
           THEN Raise(<<>>, ReadOnlyError)
           ELSE CallFetcher(<<>>, "add_comment", [page_id |-> page_id, content |-> <<"c">>])

add_comment_resume ==
    /\ Resume("add_comment")
    /\ IF LastCall.status = "ok"
       THEN IF LastCall.result.t # "none"
            THEN Return(calls, [success |-> TRUE,
                                message |-> <<"Comment added successfully">>,
                                comment |-> ToSimplifiedDict(LastCall.result.v)])
            ELSE Return(calls, [success |-> FALSE,
                                message |-> <<"Unable to add comment to page ">> \o args.page_id
                                    \o <<". API request completed but comment creation unsuccessful.">>])
       ELSE Return(calls, [success |-> FALSE,
                           message |-> <<"Error adding comment to page ">> \o args.page_id,
                           error |-> LastCall.result.msg])

(***************************************************************************)
(* add_label (lines 626-629)                                               *)
(***************************************************************************)
add_label ==
    \E page_id \in PageIdStrings :
        /\ Enter("add_label", [page_id |-> page_id, name |-> <<"l">>])
        /\ IF Refused("add_label")
           THEN Raise(<<>>, ReadOnlyError)
           ELSE CallFetcher(<<>>, "add_page_label", [page_id |-> page_id, name |-> <<"l">>])

add_label_resume ==
    /\ Resume("add_label")
    /\ IF LastCall.status = "fail"
       THEN \* no handler around line 627: the exception propagates
            Raise(calls, LastCall.result)
       ELSE Return(calls, SimplifiedList(LastCall.result.v))

(***************************************************************************)
(* get_page_ancestors (365-368), get_space_page_tree (414-416),            *)
(* list_spaces (456-458), get_comments (565-568), get_labels (597-600)     *)
(***************************************************************************)
get_page_ancestors ==
    \E page_id \in PageIdStrings :
        /\ Enter("get_page_ancestors", [page_id |-> page_id])
        /\ CallFetcher(<<>>, "get_page_ancestors", [page_id |-> page_id])

get_page_ancestors_resume ==
    /\ Resume("get_page_ancestors")
    /\ IF LastCall.status = "fail"
       THEN \* no handler around line 366: the exception propagates
            Raise(calls, LastCall.result)
       ELSE Return(calls, SimplifiedList(LastCall.result.v))

get_space_page_tree ==
    \E space_key \in {<<"D", "E", "V">>}, limit \in {1, 100} :
        /\ Enter("get_space_page_tree", [space_key |-> space_key, limit |-> limit])
        /\ CallFetcher(<<>>, "get_space_page_tree", [space_key |-> space_key, limit |-> limit])

get_space_page_tree_resume ==
    /\ Resume("get_space_page_tree")
    /\ IF LastCall.status = "fail"
       THEN \* no handler around line 415: the exception propagates
            Raise(calls, LastCall.result)
       ELSE Return(calls, LastCall.result.v)

list_spaces ==
    \E limit \in {1, 25}, start \in {0, 25} :
        /\ Enter("list_spaces", [limit |-> limit, start |-> start])
        /\ CallFetcher(<<>>, "get_spaces", [start |-> start, limit |-> limit])

list_spaces_resume ==
    /\ Resume("list_spaces")
    /\ IF LastCall.status = "fail"
       THEN \* no handler around line 457: the exception propagates
            Raise(calls, LastCall.result)
       ELSE Return(calls, LastCall.result.v)

get_comments ==
    \E page_id \in PageIdStrings :
        /\ Enter("get_comments", [page_id |-> page_id])
        /\ CallFetcher(<<>>, "get_page_comments", [page_id |-> page_id])

get_comments_resume ==
    /\ Resume("get_comments")
    /\ IF LastCall.status = "fail"
       THEN \* no handler around line 566: the exception propagates
            Raise(calls, LastCall.result)
       ELSE Return(calls, SimplifiedList(LastCall.result.v))

get_labels ==
    \E page_id \in PageIdStrings :
        /\ Enter("get_labels", [page_id |-> page_id])
        /\ CallFetcher(<<>>, "get_page_labels", [page_id |-> page_id])

get_labels_resume ==
    /\ Resume("get_labels")
    /\ IF LastCall.status = "fail"
       THEN \* no handler around line 598: the exception propagates
            Raise(calls, LastCall.result)
       ELSE Return(calls, SimplifiedList(LastCall.result.v))

(***************************************************************************)
(* get_page_children (lines 305-333)                                       *)
(***************************************************************************)
\* lines 306-307
\* faulty variant: the separator is written even before an empty expand
ExpandWithBodyLeadingComma(expand, include_content) ==
    IF include_content /\ ~ Contains(<<"b", "o", "d", "y">>, expand)
    THEN expand \o <<",", "b", "o", "d", "y", ".", "s", "t", "o", "r", "a", "g", "e">>
    ELSE expand

ExpandWithBody(expand, include_content) ==
    IF include_content /\ ~ Contains(<<"b", "o", "d", "y">>, expand)
    THEN IF expand # <<>>
         THEN expand \o <<",", "b", "o", "d", "y", ".", "s", "t", "o", "r", "a", "g", "e">>
         ELSE <<"b", "o", "d", "y", ".", "s", "t", "o", "r", "a", "g", "e">>
    ELSE expand

get_page_children ==
    \E parent_id \in PageIdStrings, expand \in Expands, limit \in {1, 25},
       include_content \in BOOLEAN, convert_to_markdown \in BOOLEAN, start \in {0, 25},
       include_folders \in BOOLEAN :
        /\ Enter("get_page_children",
                 [parent_id |-> parent_id, expand |-> expand, limit |-> limit,
                  include_content |-> include_content,
                  convert_to_markdown |-> convert_to_markdown, start |-> start,
                  include_folders |-> include_folders])
        /\ CallFetcher(<<>>, "get_page_children",
                       [page_id |-> parent_id, start |-> start, limit |-> limit,
                        expand |-> ExpandWithBody(expand, include_content),
                        convert_to_markdown |-> convert_to_markdown,
                        include_folders |-> include_folders])

\* faulty variant: count reports the requested limit
ChildrenEnvelopeCountingLimit(parent_id, limit, start, child_pages) ==
    [parent_id |-> parent_id,
     count |-> limit,
     limit_requested |-> limit,
     start_requested |-> start,
     results |-> child_pages]

\* lines 319-325
ChildrenEnvelope(parent_id, limit, start, child_pages) ==
    [parent_id |-> parent_id,
     count |-> Len(child_pages),
     limit_requested |-> limit,
     start_requested |-> start,
     results |-> child_pages]

\* line 331
ChildrenError(e) == [error |-> <<"Failed to get child pages: ">> \o e.msg]

\* The try block of lines 309-325 encloses the fetcher call and the
\* transformation of line 318; this handler provides for a failure of either
\* ("getting/processing", line 328), so the transformation may raise here.
get_page_children_resume ==
    /\ Resume("get_page_children")
    /\ IF LastCall.status = "ok"
       THEN \/ Return(calls, ChildrenEnvelope(args.parent_id, args.limit, args.start,
                                              SimplifiedList(LastCall.result.v)))
            \/ \E e \in FetcherExceptions : Return(calls, ChildrenError(e))
       ELSE \* except Exception (line 326)
            Return(calls, ChildrenError(LastCall.result))

(***************************************************************************)
(* search_user (lines 996-1028)                                            *)
(***************************************************************************)
UserOperatorTokens ==
    { <<"=">>, <<"~">>, <<">">>, <<"<">>,
      <<" ", "A", "N", "D", " ">>,
      <<" ", "O", "R", " ">>,
      <<"u", "s", "e", "r", ".">> }

\* faulty variant: the token list of search is used (no "user.", "currentUser()" instead)
IsSimpleUserTermLikeSearch(query) ==
    /\ query # <<>>
    /\ ~ \E x \in SearchOperatorTokens : Contains(x, query)

\* line 999: `query and not any(x in query for x in [...])`
IsSimpleUserTerm(query) ==
    /\ query # <<>>
    /\ ~ \E x \in UserOperatorTokens : Contains(x, query)

\* line 1003: f'user.fullname ~ "{query}"'
UserFullnameCql(q) ==
    <<"u", "s", "e", "r", ".", "f", "u", "l", "l", "n", "a", "m", "e", " ", "~", " ">> \o Quote \o q \o Quote

search_user ==
    \E query \in UserQueries, limit \in Limits :
        /\ Enter("search_user", [query |-> query, limit |-> limit])
        /\ CallFetcher(<<>>, "search_user",
                       [query |-> IF IsSimpleUserTerm(query) THEN UserFullnameCql(query)
                                                             ELSE query,
                        limit |-> limit])

\* faulty variant: the authentication failure is not special-cased
UserSearchErrorGenericOnly(e) ==
    [error |-> <<"An unexpected error occurred while searching for users: ">> \o e.msg]

\* lines 1010-1028: the payload of the except clause that catches e
UserSearchError(e) ==
    IF e.type = "MCPAtlassianAuthenticationError"
    THEN [error |-> <<"Authentication failed. Please check your credentials.">>,
          details |-> e.msg]
    ELSE [error |-> <<"An unexpected error occurred while searching for users: ">> \o e.msg]

search_user_resume ==
    /\ Resume("search_user")
    /\ IF LastCall.status = "ok"
       THEN Return(calls, SimplifiedList(LastCall.result.v))
       ELSE Return(calls, UserSearchError(LastCall.result))

(***************************************************************************)
(* confluence_get_page_views (lines 1065-1095)                             *)
(***************************************************************************)
confluence_get_page_views ==
    \E page_id \in PageIdStrings, include_title \in BOOLEAN :
        /\ Enter("confluence_get_page_views",
                 [page_id |-> page_id, include_title |-> include_title])
        /\ CallFetcher(<<>>, "get_page_views",
                       [page_id |-> page_id, include_title |-> include_title])

\* faulty variant: no `except ValueError` clause
PageViewsErrorWithoutValueError(page_id, e) ==
    IF e.type = "MCPAtlassianAuthenticationError"
    THEN [error |-> <<"Authentication failed. Please check your credentials.">>,
          details |-> e.msg]
    ELSE [error |-> <<"Failed to get page views: ">> \o e.msg, page_id |-> page_id]

\* lines 1072-1095: the payload of the except clause that catches e
PageViewsError(page_id, e) ==
    IF e.type = "MCPAtlassianAuthenticationError"
    THEN [error |-> <<"Authentication failed. Please check your credentials.">>,
          details |-> e.msg]
    ELSE IF e.type = "ValueError"
         THEN [error |-> e.msg, page_id |-> page_id]
         ELSE [error |-> <<"Failed to get page views: ">> \o e.msg, page_id |-> page_id]

confluence_get_page_views_resume ==
    /\ Resume("confluence_get_page_views")
    /\ IF LastCall.status = "ok"
       THEN Return(calls, ToSimplifiedDict(LastCall.result.v))
       ELSE Return(calls, PageViewsError(args.page_id, LastCall.result))

(***************************************************************************)
(* The calling framework takes the response; nothing outlives a call.      *)
(***************************************************************************)
Respond ==
    /\ pc = "done"
    /\ pc' = "idle"
    /\ tool' = "none"
    /\ args' = [none |-> TRUE]
    /\ calls' = <<>>
    /\ ret' = NoReturn
    /\ UNCHANGED readOnly

Next ==
    \/ search
    \/ search_resume
    \/ get_page
    \/ get_page_resume
    \/ create_page
    \/ create_page_resume
    \/ update_page
    \/ update_page_resume
    \/ move_page_position
    \/ move_page_position_resume
    \/ delete_page
    \/ delete_page_resume
    \/ add_comment
    \/ add_comment_resume
    \/ add_label
    \/ add_label_resume
    \/ get_page_ancestors
    \/ get_page_ancestors_resume
    \/ get_space_page_tree
    \/ get_space_page_tree_resume
    \/ list_spaces
    \/ list_spaces_resume
    \/ get_comments
    \/ get_comments_resume
    \/ get_labels
    \/ get_labels_resume
    \/ get_page_children
    \/ get_page_children_resume
    \/ search_user
    \/ search_user_resume
    \/ confluence_get_page_views
    \/ confluence_get_page_views_resume
    \/ FetcherReturns
    \/ FetcherRaises
    \/ Respond

Spec == Init /\ [][Next]_vars

(***************************************************************************)
(* parse_page_id_from_url: the helper that tests/unit/servers/             *)
(* test_confluence_helpers.py imports from servers/confluence.py.  Its     *)
(* definition is not part of the sources at hand; it is written here from  *)
(* its specified behaviour.  A URL is a sequence of fragments, the digits  *)
(* of an identifier one character each.                                    *)
(***************************************************************************)
\* longest identifier inside a URL
MaxIdDigits == 2

IsDigit(c) == c \in {"0", "1", "2", "3", "4", "5", "6", "7", "8", "9"}

AllDigits(s) == s # <<>> /\ \A i \in 1..Len(s) : IsDigit(s[i])

\* the digits s starts with
RECURSIVE DigitRun(_)
DigitRun(s) ==
    IF s # <<>> /\ IsDigit(Head(s)) THEN <<Head(s)>> \o DigitRun(Tail(s)) ELSE <<>>

\* the digits that follow the first occurrence of marker followed by a digit
RECURSIVE DigitsAfter(_, _)
DigitsAfter(marker, s) ==
    IF Len(s) < 2 THEN <<>>
    ELSE IF Head(s) = marker /\ IsDigit(s[2]) THEN DigitRun(Tail(s))
    ELSE DigitsAfter(marker, Tail(s))

\* faulty variant: the pageId query parameter is not looked at
parse_page_id_from_url_modern_only(page_id_or_url) ==
    CASE page_id_or_url.t = "none" -> None
      [] page_id_or_url.t = "int" -> PyStr(IntToStr(page_id_or_url.v))
      [] OTHER ->
           IF AllDigits(page_id_or_url.v) THEN page_id_or_url
           ELSE IF DigitsAfter("/pages/", page_id_or_url.v) # <<>>
           THEN PyStr(DigitsAfter("/pages/", page_id_or_url.v))
           ELSE page_id_or_url

parse_page_id_from_url(page_id_or_url) ==
    CASE page_id_or_url.t = "none" -> None
      [] page_id_or_url.t = "int" -> PyStr(IntToStr(page_id_or_url.v))
      [] OTHER ->
           IF AllDigits(page_id_or_url.v) THEN page_id_or_url
           ELSE IF DigitsAfter("/pages/", page_id_or_url.v) # <<>>
           THEN PyStr(DigitsAfter("/pages/", page_id_or_url.v))
           ELSE IF DigitsAfter("pageId=", page_id_or_url.v) # <<>>
           THEN PyStr(DigitsAfter("pageId=", page_id_or_url.v))
           ELSE \* not a page URL: returned as it is, with a warning logged
                page_id_or_url

RECURSIVE DigitStrings(_)
DigitStrings(n) ==
    IF n = 0 THEN {<<>>}
    ELSE DigitStrings(n - 1)
         \cup {d \o <<c>> : d \in DigitStrings(n - 1), c \in {"0", "1", "9"}}

IdDigits == DigitStrings(MaxIdDigits) \ {<<>>}

Schemes == {"https://", "http://"}

ModernUrls ==
    {<<sch, "site.atlassian.net", "/wiki", "/spaces/", "TEAM", "/pages/">> \o d \o rest :
        sch \in Schemes, d \in IdDigits, rest \in {<<>>, <<"/", "Page+Title">>}}

LegacyUrls ==
    {<<sch, "site.atlassian.net", "/wiki", "/pages/", "viewpage.action", "?", "pageId=">> \o d :
        sch \in Schemes, d \in IdDigits}

OtherUrls ==
    {<<sch>> \o rest :
        sch \in Schemes,
        rest \in {<<"example.com", "/not-a-confluence-url">>,
                  <<"site.atlassian.net", "/wiki", "/spaces/", "TEAM", "/overview">>,
                  <<"site.atlassian.net", "/wiki", "/pages/", "viewpage.action">>}}

UrlInputs ==
    {None} \cup {PyInt(n) : n \in 0..MaxPageId}
           \cup {PyStr(d) : d \in IdDigits \cup {<<>>}}
           \cup {PyStr(u) : u \in ModernUrls \cup LegacyUrls \cup OtherUrls}

ParseInit ==
    /\ readOnly \in BOOLEAN
    /\ pc = "idle"
    /\ tool = "parse_page_id_from_url"
    /\ args \in {[page_id_or_url |-> v] : v \in UrlInputs}
    /\ calls = <<>>
    /\ ret = NoReturn

ParseCall ==
    /\ pc = "idle"
    /\ pc' = "done"
    /\ ret' = Returned(parse_page_id_from_url(args.page_id_or_url))
    /\ UNCHANGED <<readOnly, tool, args, calls>>

ParseNext == ParseCall

ParseSpec == ParseInit /\ [][ParseNext]_vars

(***************************************************************************)
(* Properties of search.                                                   *)
(***************************************************************************)
\* the query contains none of the operator tokens
NoOperatorToken(q) ==
    /\ ~ Contains(<<"=">>, q) /\ ~ Contains(<<"~">>, q)
    /\ ~ Contains(<<">">>, q) /\ ~ Contains(<<"<">>, q)
    /\ ~ Contains(<<" ", "A", "N", "D", " ">>, q)
    /\ ~ Contains(<<" ", "O", "R", " ">>, q)
    /\ ~ Contains(<<"c", "u", "r", "r", "e", "n", "t", "U", "s", "e", "r", "(", ")">>, q)

InSearch == tool = "search" /\ pc # "idle"

\* siteSearch first; a text call exactly when the first call failed, and only after it
SiteSearchThenText(q) ==
    /\ Len(calls) \in {1, 2}
    /\ calls[1].op = "search"
    /\ calls[1].arg.query =
          <<"s", "i", "t", "e", "S", "e", "a", "r", "c", "h", " ", "~", " ", "\"">> \o q \o <<"\"">>
    /\ \A i \in 1..(Len(calls) - 1) : calls[i].status # "pending"
    /\ Len(calls) = 2 =>
          /\ calls[1].status = "fail"
          /\ calls[2].op = "search"
          /\ calls[2].arg.query = <<"t", "e", "x", "t", " ", "~", " ", "\"">> \o q \o <<"\"">>
    /\ pc = "done" => (Len(calls) = 2 <=> calls[1].status = "fail")

\* C1 (as amended): for every NON-EMPTY query without operator tokens the first
\* fetcher call of search carries siteSearch ~ "<q>"; exactly when that call
\* failed there is one further call, carrying text ~ "<q>", and it is issued
\* only after the first call's failure (no earlier call is ever still pending).
C1_SiteSearchFirstThenTextFallback ==
    (InSearch /\ NoOperatorToken(args.query) /\ args.query # <<>>)
        => SiteSearchThenText(args.query)

\* C1 as stated: the same for every query without operator tokens, the empty
\* string included.
C1_AsStated_EmptyQueryIncluded ==
    (InSearch /\ NoOperatorToken(args.query)) => SiteSearchThenText(args.query)

\* a non-empty free-text search whose siteSearch call failed and whose text call was made
C1_Witness ==
    /\ InSearch /\ NoOperatorToken(args.query) /\ args.query # <<>>
    /\ pc = "done" /\ Len(calls) = 2 /\ calls[1].status = "fail"

\* C2: a query that contains an operator token is passed to the fetcher
\* unchanged, in exactly one fetcher call, whether the call succeeds or fails.
C2_CqlPassedThroughOnce ==
    (InSearch /\ ~ NoOperatorToken(args.query)) =>
        /\ Len(calls) = 1
        /\ calls[1].op = "search"
        /\ calls[1].arg.query = args.query
        /\ (pc = "done" /\ calls[1].status = "fail") => ret = Raised(calls[1].result)

\* a CQL search that ended after its single call failed
C2_Witness ==
    /\ InSearch /\ ~ NoOperatorToken(args.query)
    /\ pc = "done" /\ calls[1].status = "fail" /\ Len(calls) = 1

\* search raises only after a failed siteSearch call and a failed text call, the
\* raised exception being the text call's; a successful text call is returned
RaisesOnlyAfterBothFailed ==
    /\ ret.kind = "raised" =>
          /\ Len(calls) = 2
          /\ calls[1].status = "fail" /\ calls[2].status = "fail"
          /\ calls[1].arg.query = SiteSearchCql(args.query)
          /\ calls[2].arg.query = TextCql(args.query)
          /\ ret.exc = calls[2].result
    /\ (pc = "done" /\ Len(calls) = 2 /\ calls[2].status = "ok") =>
          /\ calls[1].status = "fail"
          /\ ret = Returned(SimplifiedList(calls[2].result.v))

\* C3 (as amended): for a NON-EMPTY free-text query, search raises only after
\* both the siteSearch call and the text call were made and failed, and then
\* raises the text call's exception; when the siteSearch call fails and the
\* text call succeeds it returns the text call's results.
C3_RaisesOnlyAfterBothStrategies ==
    (InSearch /\ NoOperatorToken(args.query) /\ args.query # <<>>)
        => RaisesOnlyAfterBothFailed

\* C3 as stated: the same for every free-text query (no operator token).
C3_AsStated_EveryFreeTextQuery ==
    (InSearch /\ NoOperatorToken(args.query)) => RaisesOnlyAfterBothFailed

\* a non-empty free-text search that raised
C3_Witness ==
    /\ InSearch /\ NoOperatorToken(args.query) /\ args.query # <<>>
    /\ ret.kind = "raised"

\* a non-empty free-text search that returned the results of the text call
C3_WitnessFallbackSucceeded ==
    /\ InSearch /\ NoOperatorToken(args.query) /\ args.query # <<>>
    /\ ret.kind = "returned" /\ Len(calls) = 2

(***************************************************************************)
(* Properties of get_page.                                                 *)
(***************************************************************************)
InGetPage == tool = "get_page" /\ pc # "idle"

DigitValue(c) == CHOOSE d \in 0..9 : Digit(d) = c

\* the integer a decimal numeral denotes
RECURSIVE NumeralValue(_)
NumeralValue(s) ==
    IF s = <<>> THEN 0
    ELSE IF Head(s) = "-" THEN - NumeralValue(Tail(s))
    ELSE NumeralValue(SubSeq(s, 1, Len(s) - 1)) * 10 + DigitValue(s[Len(s)])

\* id is passed to get_page_content in its string form
IsStringFormOf(passed, id) ==
    IF id.t = "int"
    THEN passed # <<>> /\ passed # <<"-">> /\ NumeralValue(passed) = id.v
    ELSE passed = id.v

\* a non-empty string or a non-zero integer
NonEmptyOrNonZero(id) ==
    CASE id.t = "str" -> Len(id.v) > 0
      [] id.t = "int" -> id.v < 0 \/ id.v > 0
      [] OTHER -> FALSE

\* the page is resolved by ID and by nothing else, and no identifier is demanded
ResolvedById ==
    /\ Len(calls) = 1
    /\ calls[1].op = "get_page_content"
    /\ IsStringFormOf(calls[1].arg.page_id, args.page_id)
    /\ ret # Raised(IdentifierRequired)

\* C4 (as amended): whenever get_page is called with a page_id that is a
\* NON-EMPTY string or a NON-ZERO integer, it resolves the page through
\* get_page_content with the string form of that ID and never calls
\* get_page_by_title, whatever title and space_key accompany it, and it does
\* not raise the validation error.
C4_PageIdTakesPrecedence ==
    (InGetPage /\ NonEmptyOrNonZero(args.page_id)) => ResolvedById

\* C4 as stated: the same for every page_id that is supplied (any string or
\* integer, not absent).
C4_AsStated_AnySuppliedPageId ==
    (InGetPage /\ args.page_id.t # "none") => ResolvedById

\* an integer page_id given together with a title and a space key, resolved by ID
C4_Witness ==
    /\ InGetPage /\ args.page_id.t = "int" /\ args.page_id.v > 9
    /\ Truthy(args.title) /\ Truthy(args.space_key)
    /\ pc = "done" /\ ret.kind = "returned" /\ "metadata" \in DOMAIN ret.payload

C6_TitleNotFoundIsPayload ==
    (InGetPage /\ args.page_id.t = "none" /\ args.title.t = "str" /\ args.space_key.t = "str"
               /\ pc = "done" /\ Len(calls) = 1 /\ calls[1].op = "get_page_by_title"
               /\ calls[1].status = "ok" /\ calls[1].result.t = "none")
        => /\ ret.kind = "returned"
           /\ ret.payload = [error |-> <<"Page with title '">> \o args.title.v
                                        \o <<"' not found in space '">> \o args.space_key.v
                                        \o <<"'.">>]

\* a title lookup that found no page
C6_Witness ==
    /\ InGetPage /\ args.page_id.t = "none" /\ args.title.t = "str" /\ args.space_key.t = "str"
    /\ pc = "done" /\ Len(calls) = 1 /\ calls[1].op = "get_page_by_title"
    /\ calls[1].status = "ok" /\ calls[1].result.t = "none"

(***************************************************************************)
(* Properties of the write tools and of the read/listing tools.            *)
(***************************************************************************)
InCreateOrUpdate == tool \in {"create_page", "update_page"} /\ pc # "idle"

IsContentFormatError(r) ==
    /\ r.kind = "raised"
    /\ r.exc.type = "ValueError"
    /\ r.exc.msg[1] = "Invalid content_format: "

\* C7: create_page and update_page called with a content_format outside
\* {markdown, wiki, storage} raise, and the fetcher's create_page / update_page
\* is never called in that invocation; the error raised is the content_format
\* validation error whenever the handler body is run (write access granted).
\* With a content_format inside the set no validation error is raised.
C7_ContentFormatValidated ==
    InCreateOrUpdate =>
        IF args.content_format \in {<<"markdown">>, <<"wiki">>, <<"storage">>}
        THEN ~ IsContentFormatError(ret)
        ELSE /\ calls = <<>>
             /\ pc = "done"
             /\ ret.kind = "raised"
             /\ ~ readOnly =>
                   /\ IsContentFormatError(ret)
                   /\ ret.exc.msg = <<"Invalid content_format: ">> \o args.content_format
                                      \o <<". Must be 'markdown', 'wiki', or 'storage'">>

\* update_page with an unknown content_format, write access granted
C7_Witness ==
    /\ tool = "update_page" /\ pc = "done" /\ ~ readOnly
    /\ args.content_format = <<"bogus">>
    /\ ret.kind = "raised" /\ calls = <<>>

\* C8: no write tool raises because the fetcher operation it calls failed: the
\* failure is reported in the returned payload with success = false; a write
\* tool raises only before any fetcher call.
C8_WriteToolsNeverRaiseFetcherFailure ==
    (tool \in WriteTools /\ pc = "done") =>
        /\ ret.kind = "raised" => calls = <<>>
        /\ (calls # <<>> /\ LastCall.status = "fail") =>
              /\ ret.kind = "returned"
              /\ "success" \in DOMAIN ret.payload
              /\ ret.payload.success = FALSE

\* C9: a failure of the fetcher operation called by get_page_ancestors,
\* get_space_page_tree, list_spaces, get_comments or get_labels is returned
\* inside the payload under a success:false or error key and never raised.
C9_ReadToolsReturnFetcherFailure ==
    (tool \in {"get_page_ancestors", "get_space_page_tree", "list_spaces", "get_comments",
               "get_labels"}
       /\ pc = "done" /\ calls # <<>> /\ LastCall.status = "fail") =>
        /\ ret.kind = "returned"
        /\ \/ "error" \in DOMAIN ret.payload
           \/ ("success" \in DOMAIN ret.payload /\ ret.payload.success = FALSE)

\* C10: in a read-only configuration no invocation of a write tool reaches a
\* fetcher operation: the write-access check precedes the handler body and
\* ends the invocation with its error; the tools gated by the check are
\* exactly the tools classified as write, and no read tool is stopped by it.
C10_ReadOnlyBlocksEveryWriteTool ==
    /\ (readOnly /\ tool \in WriteTools /\ pc # "idle") =>
          /\ calls = <<>>
          /\ pc = "done"
          /\ ret = Raised(ReadOnlyError)
    /\ (tool \in ReadTools /\ pc # "idle") => ret # Raised(ReadOnlyError)
    /\ (~ readOnly /\ tool \in WriteTools /\ pc # "idle") => ret # Raised(ReadOnlyError)
    /\ WriteGated = WriteTools
    /\ WriteGated \cap ReadTools = {}

\* add_label refused in a read-only configuration
C10_Witness ==
    /\ readOnly /\ tool = "add_label" /\ pc = "done"
    /\ ret.kind = "raised" /\ calls = <<>>

(***************************************************************************)
(* The number of fetcher calls of an invocation.                           *)
(***************************************************************************)
\* the invocation was ended by parameter validation or by the write gate
RejectedBeforeFetcher ==
    /\ ret.kind = "raised"
    /\ \/ ret.exc.msg = <<"Cannot write in read-only mode.">>
       \/ ret.exc.msg = <<"Either 'page_id' OR both 'title' and 'space_key' must be provided.">>
       \/ ret.exc.msg[1] = "Invalid content_format: "

\* C11: every tool invocation that is not rejected by parameter validation or
\* by the write gate calls exactly one fetcher operation, except that search
\* may make one further call; no invocation makes more than two fetcher calls,
\* and a second call occurs only in search, for a query without operator
\* tokens, after the first call failed.
C11_OneFetcherCallPlusOneFallback ==
    (tool \in WriteTools \cup ReadTools) =>
        /\ Len(calls) <= 2
        /\ pc \in {"await", "ready"} => Len(calls) >= 1
        /\ (pc = "done" /\ ~ RejectedBeforeFetcher) =>
              IF tool = "search" THEN Len(calls) \in {1, 2} ELSE Len(calls) = 1
        /\ (pc = "done" /\ RejectedBeforeFetcher) => calls = <<>>
        /\ Len(calls) = 2 =>
              /\ tool = "search"
              /\ NoOperatorToken(args.query)
              /\ calls[1].status = "fail"

\* a CQL search that ended after its only call failed, next to the tools with one call
C11_Witness ==
    /\ tool = "search" /\ pc = "done" /\ ~ NoOperatorToken(args.query)
    /\ Len(calls) = 1 /\ calls[1].status = "fail" /\ ret.kind = "raised"
    /\ ~ RejectedBeforeFetcher

(***************************************************************************)
(* Properties of search_user.                                              *)
(***************************************************************************)
InSearchUser == tool = "search_user" /\ pc # "idle"

\* the query contains no "user." substring
NoUserDot(q) == ~ Contains(<<"u", "s", "e", "r", ".">>, q)

\* the query contains none of "=", "~", ">", "<", " AND ", " OR "
NoComparisonToken(q) ==
    /\ ~ Contains(<<"=">>, q) /\ ~ Contains(<<"~">>, q)
    /\ ~ Contains(<<">">>, q) /\ ~ Contains(<<"<">>, q)
    /\ ~ Contains(<<" ", "A", "N", "D", " ">>, q)
    /\ ~ Contains(<<" ", "O", "R", " ">>, q)

\* one call of the fetcher's search_user, carrying the wrapped query exactly when
\* `wrapped`, and no call after it
OneUserSearchCall(wrapped) ==
    /\ Len(calls) = 1
    /\ calls[1].op = "search_user"
    /\ calls[1].arg.query =
          IF wrapped
          THEN <<"u", "s", "e", "r", ".", "f", "u", "l", "l", "n", "a", "m", "e", " ", "~", " ",
                 "\"">> \o args.query \o <<"\"">>
          ELSE args.query

\* C12 (as amended): search_user wraps the query as user.fullname ~ "<text>"
\* exactly when the query is NON-EMPTY and contains none of "=", "~", ">", "<",
\* " AND ", " OR " and no "user." substring ("currentUser()" is NOT one of the
\* tokens of search_user); any other query is passed unchanged; in both cases
\* exactly one fetcher call is made and none follows a failure.
C12_UserQueryWrappedWhenFreeText ==
    InSearchUser =>
        OneUserSearchCall(args.query # <<>> /\ NoComparisonToken(args.query)
                                           /\ NoUserDot(args.query))

\* C12 as stated: the query is wrapped exactly when it contains none of the CQL
\* operator tokens ("currentUser()" among them) and no "user." substring.
C12_AsStated_CurrentUserIsOperatorToken ==
    InSearchUser => OneUserSearchCall(NoOperatorToken(args.query) /\ NoUserDot(args.query))

\* a free-text user search, wrapped, whose single call failed
C12_Witness ==
    /\ InSearchUser /\ pc = "done" /\ args.query = <<"u", "s", "e", "r">>
    /\ Len(calls) = 1 /\ calls[1].status = "fail"
    /\ calls[1].arg.query # args.query

\* C13: search_user never raises: an authentication failure of the fetcher call
\* yields {error: "Authentication failed. Please check your credentials.",
\* details}, every other exception yields a payload whose only key is error,
\* and a success yields the list of results, which has neither key.
C13_UserSearchNeverRaises ==
    (InSearchUser /\ pc = "done") =>
        /\ ret.kind = "returned"
        /\ Len(calls) = 1
        /\ IF calls[1].status = "ok"
           THEN ret.payload = [i \in 1..Len(calls[1].result.v) |->
                                  ToSimplifiedDict(calls[1].result.v[i])]
           ELSE IF calls[1].result.type = "MCPAtlassianAuthenticationError"
                THEN /\ DOMAIN ret.payload = {"error", "details"}
                     /\ ret.payload.error =
                           <<"Authentication failed. Please check your credentials.">>
                     /\ ret.payload.details = calls[1].result.msg
                ELSE /\ DOMAIN ret.payload = {"error"}
                     /\ ret.payload.error =
                           <<"An unexpected error occurred while searching for users: ">>
                              \o calls[1].result.msg

\* a user search whose fetcher call failed to authenticate
C13_Witness ==
    /\ InSearchUser /\ pc = "done" /\ calls[1].status = "fail"
    /\ calls[1].result.type = "MCPAtlassianAuthenticationError"
    /\ ret.kind = "returned"

\* a user search whose fetcher call failed otherwise
C13_WitnessGeneric ==
    /\ InSearchUser /\ pc = "done" /\ calls[1].status = "fail"
    /\ calls[1].result.type = "ValueError"
    /\ ret.kind = "returned"

(***************************************************************************)
(* Properties of confluence_get_page_views.                                *)
(***************************************************************************)
PageViewsFailed ==
    /\ tool = "confluence_get_page_views" /\ pc = "done"
    /\ Len(calls) = 1 /\ calls[1].status = "fail"

\* C14 (as amended): confluence_get_page_views never raises.  An authentication
\* failure yields {error: "Authentication failed. ...", details} WITHOUT the
\* page_id; a ValueError yields {error: <e>, page_id}; any other failure yields
\* {error: "Failed to get page views: <e>", page_id}.  The authentication payload
\* differs from the other two by its keys; the other two have the same keys and
\* differ by the text of error only.
C14_PageViewsErrorPayloads ==
    (tool = "confluence_get_page_views" /\ pc = "done") =>
        /\ ret.kind = "returned"
        /\ PageViewsFailed =>
              CASE calls[1].result.type = "MCPAtlassianAuthenticationError" ->
                      /\ DOMAIN ret.payload = {"error", "details"}
                      /\ ret.payload.error =
                            <<"Authentication failed. Please check your credentials.">>
                      /\ ret.payload.details = calls[1].result.msg
                [] calls[1].result.type = "ValueError" ->
                      /\ DOMAIN ret.payload = {"error", "page_id"}
                      /\ ret.payload.error = calls[1].result.msg
                      /\ ret.payload.page_id = args.page_id
                [] OTHER ->
                      /\ DOMAIN ret.payload = {"error", "page_id"}
                      /\ ret.payload.error =
                            <<"Failed to get page views: ">> \o calls[1].result.msg
                      /\ ret.payload.page_id = args.page_id

\* C14 as stated: never raises, and each of the three error payloads preserves
\* the page_id of the request.
C14_AsStated_EveryErrorKeepsPageId ==
    PageViewsFailed =>
        /\ ret.kind = "returned"
        /\ "page_id" \in DOMAIN ret.payload
        /\ ret.payload.page_id = args.page_id

\* a page-views request that failed with a ValueError
C14_Witness ==
    /\ PageViewsFailed /\ calls[1].result.type = "ValueError"
    /\ ret.kind = "returned"

(***************************************************************************)
(* Properties of get_page_children.                                        *)
(***************************************************************************)
InChildren == tool = "get_page_children" /\ pc # "idle"

\* C15: get_page_children never propagates an exception of the fetcher call
\* or of the result transformation: it then returns an error object without
\* the envelope fields; on success the response holds parent_id, count,
\* limit_requested, start_requested and results, with count the number of
\* entries of results and limit_requested / start_requested the limit and
\* start passed to the fetcher.
C15_ChildrenEnvelopeOrError ==
    (InChildren /\ pc = "done") =>
        /\ ret.kind = "returned"
        /\ Len(calls) = 1
        /\ IF "error" \in DOMAIN ret.payload
           THEN DOMAIN ret.payload = {"error"}
           ELSE /\ calls[1].status = "ok"
                /\ DOMAIN ret.payload =
                      {"parent_id", "count", "limit_requested", "start_requested", "results"}
                /\ ret.payload.parent_id = args.parent_id
                /\ ret.payload.count = Len(ret.payload.results)
                /\ Len(ret.payload.results) = Len(calls[1].result.v)
                /\ ret.payload.limit_requested = calls[1].arg.limit
                /\ ret.payload.start_requested = calls[1].arg.start
        /\ calls[1].status = "fail" => "error" \in DOMAIN ret.payload

\* a listing that failed in the fetcher
C15_Witness ==
    /\ InChildren /\ pc = "done" /\ calls[1].status = "fail"
    /\ DOMAIN ret.payload = {"error"}

\* a listing that failed while its results were transformed
C15_WitnessTransformation ==
    /\ InChildren /\ pc = "done" /\ calls[1].status = "ok"
    /\ DOMAIN ret.payload = {"error"}

\* a listing that returned one child from start 25 with limit 25
C15_WitnessSuccess ==
    /\ InChildren /\ pc = "done" /\ ret.kind = "returned"
    /\ "count" \in DOMAIN ret.payload /\ ret.payload.count = 1
    /\ ret.payload.start_requested = 25 /\ ret.payload.limit_requested = 25

BodyStorage == <<"b", "o", "d", "y", ".", "s", "t", "o", "r", "a", "g", "e">>

RequestsBody(expand) ==
    \E i \in 1..Len(expand) :
        /\ i + 3 <= Len(expand)
        /\ expand[i] = "b" /\ expand[i + 1] = "o" /\ expand[i + 2] = "d" /\ expand[i + 3] = "y"

\* C16: when include_content is true and expand does not already request
\* body content, the fetcher receives expand followed by ",body.storage"
\* ("version" becomes "version,body.storage"), or exactly "body.storage" when
\* expand is empty; when include_content is false or expand already requests
\* body content, the fetcher receives expand unchanged.
C16_ExpandGainsBodyStorage ==
    (InChildren /\ calls # <<>>) =>
        LET passed == calls[1].arg.expand
        IN  /\ (args.include_content /\ ~ RequestsBody(args.expand) /\ args.expand # <<>>) =>
                   passed = args.expand \o <<",">> \o BodyStorage
            /\ (args.include_content /\ args.expand = <<>>) => passed = BodyStorage
            /\ (~ args.include_content \/ RequestsBody(args.expand)) => passed = args.expand
            /\ (args.include_content /\ args.expand = <<"v", "e", "r", "s", "i", "o", "n">>) =>
                   passed = <<"v", "e", "r", "s", "i", "o", "n", ",",
                              "b", "o", "d", "y", ".", "s", "t", "o", "r", "a", "g", "e">>

\* the content of the children was asked for with an empty expand
C16_Witness ==
    /\ InChildren /\ calls # <<>>
    /\ args.include_content /\ args.expand = <<>>
    /\ calls[1].arg.expand = BodyStorage

\* expand "version" with content
C16_WitnessVersion ==
    /\ InChildren /\ calls # <<>>
    /\ args.include_content /\ args.expand = <<"v", "e", "r", "s", "i", "o", "n">>
    /\ Len(calls[1].arg.expand) = 20

\* expand already asks for a body
C16_WitnessAlready ==
    /\ InChildren /\ calls # <<>>
    /\ args.include_content /\ RequestsBody(args.expand)
    /\ calls[1].arg.expand = args.expand

(***************************************************************************)
(* Properties of delete_page.                                              *)
(***************************************************************************)
DeleteAnswered == tool = "delete_page" /\ pc = "done" /\ calls # <<>>

\* C17: delete_page returns success = true exactly when the fetcher's
\* delete_page returned a true value without raising; when the fetcher
\* returns False the payload is {success: false, message: "Unable to delete
\* page <id>. API request completed but deletion unsuccessful."} with <id>
\* the requested page_id; when the fetcher raises, delete_page returns a
\* payload with success = false and does not raise.
C17_DeleteReportsFetcherOutcome ==
    DeleteAnswered =>
        /\ Len(calls) = 1
        /\ calls[1].op = "delete_page"
        /\ calls[1].arg.page_id = args.page_id
        /\ ret.kind = "returned"
        /\ ret.payload.success <=> (calls[1].status = "ok" /\ calls[1].result.v)
        /\ (calls[1].status = "ok" /\ ~ calls[1].result.v) =>
               ret.payload =
                   [success |-> FALSE,
                    message |-> <<"Unable to delete page ">> \o args.page_id
                                \o <<". API request completed but deletion unsuccessful.">>]
        /\ calls[1].status = "fail" => ~ ret.payload.success

\* the fetcher completed the request and reported no deletion
C17_Witness ==
    /\ DeleteAnswered /\ calls[1].status = "ok" /\ ~ calls[1].result.v
    /\ ret.kind = "returned" /\ ~ ret.payload.success

\* the fetcher deleted the page
C17_WitnessDeleted ==
    /\ DeleteAnswered /\ calls[1].status = "ok" /\ calls[1].result.v
    /\ ret.kind = "returned" /\ ret.payload.success

\* the fetcher raised
C17_WitnessRaised ==
    /\ DeleteAnswered /\ calls[1].status = "fail"
    /\ ret.kind = "returned" /\ "error" \in DOMAIN ret.payload

(***************************************************************************)
(* Properties of parse_page_id_from_url (under ParseSpec).                 *)
(***************************************************************************)
Parsed == tool = "parse_page_id_from_url" /\ pc = "done"

\* s is <scheme>...,"/spaces/",<KEY>,"/pages/",<ds>,"/",<title>
IsModernUrl(s, ds) ==
    /\ s # <<>> /\ s[1] \in Schemes
    /\ \E i \in 2..Len(s) :
          /\ i + 4 + Len(ds) = Len(s)
          /\ s[i] = "/spaces/" /\ s[i + 2] = "/pages/"
          /\ SubSeq(s, i + 3, i + 2 + Len(ds)) = ds
          /\ s[i + 3 + Len(ds)] = "/"

\* s is <scheme>...,"viewpage.action","?","pageId=",<ds>
IsLegacyUrl(s, ds) ==
    /\ s # <<>> /\ s[1] \in Schemes
    /\ \E i \in 2..Len(s) :
          /\ i + 2 + Len(ds) = Len(s)
          /\ s[i] = "viewpage.action" /\ s[i + 1] = "?" /\ s[i + 2] = "pageId="
          /\ SubSeq(s, i + 3, Len(s)) = ds

\* s is a URL that names no page
IsOtherUrl(s) ==
    /\ s # <<>> /\ s[1] \in Schemes
    /\ \A i \in 1..Len(s) :
          /\ s[i] # "pageId="
          /\ s[i] = "/pages/" => (i < Len(s) /\ s[i + 1] = "viewpage.action")

\* C18: parse_page_id_from_url returns the numeric page ID for a modern URL
\* http(s)://.../spaces/<KEY>/pages/<digits>/<title>, the pageId query value
\* for a legacy viewpage.action?pageId=<digits> URL, the unchanged string
\* form for a bare numeric string or an integer, None for None, and the input
\* unchanged for a URL that is not a Confluence page URL.
C18_ParsePageIdFromUrl ==
    Parsed =>
        LET in == args.page_id_or_url
            out == ret.payload
        IN  /\ ret.kind = "returned"
            /\ in.t = "none" => out = None
            /\ in.t = "int" => out.t = "str" /\ IsStringFormOf(out.v, in)
            /\ in.t = "str" =>
                  /\ out.t = "str"
                  /\ AllDigits(in.v) => out = in
                  /\ \A ds \in IdDigits :
                        /\ IsModernUrl(in.v, ds) => out.v = ds
                        /\ IsLegacyUrl(in.v, ds) => out.v = ds
                  /\ IsOtherUrl(in.v) => out = in

\* a legacy URL gave its pageId value
C18_Witness ==
    /\ Parsed
    /\ args.page_id_or_url.t = "str"
    /\ IsLegacyUrl(args.page_id_or_url.v, <<"1", "9">>)
    /\ ret.payload = PyStr(<<"1", "9">>)

\* a modern http:// URL gave its page ID
C18_WitnessModern ==
    /\ Parsed
    /\ args.page_id_or_url.t = "str"
    /\ IsModernUrl(args.page_id_or_url.v, <<"9", "0">>)
    /\ args.page_id_or_url.v[1] = "http://"
    /\ ret.payload = PyStr(<<"9", "0">>)

\* an integer gave its string form
C18_WitnessInt ==
    /\ Parsed /\ args.page_id_or_url = PyInt(10) /\ ret.payload = PyStr(<<"1", "0">>)

\* a URL that names no page came back unchanged
C18_WitnessOther ==
    /\ Parsed
    /\ args.page_id_or_url.t = "str"
    /\ IsOtherUrl(args.page_id_or_url.v)
    /\ ret.payload = args.page_id_or_url

\* create_page or update_page has called the fetcher
CreateOrUpdateCalled == InCreateOrUpdate /\ calls # <<>>

\* C19: in create_page and update_page the parameters handed to the fetcher
\* follow content_format: for markdown, is_markdown is true,
\* content_representation is None and enable_heading_anchors is the caller's
\* value; for wiki or storage, is_markdown is false, content_representation
\* equals content_format and enable_heading_anchors is false whatever the
\* caller passed.
C19_FetcherParametersFollowFormat ==
    CreateOrUpdateCalled =>
        LET passed == calls[1].arg
        IN  /\ calls[1].op = tool
            /\ args.content_format = <<"markdown">> =>
                  /\ passed.is_markdown = TRUE
                  /\ passed.content_representation = [t |-> "none"]
                  /\ passed.enable_heading_anchors = args.enable_heading_anchors
            /\ args.content_format \in {<<"wiki">>, <<"storage">>} =>
                  /\ passed.is_markdown = FALSE
                  /\ passed.content_representation = [t |-> "str", v |-> args.content_format]
                  /\ passed.enable_heading_anchors = FALSE

\* a wiki page created with heading anchors asked for
C19_Witness ==
    /\ CreateOrUpdateCalled /\ tool = "create_page"
    /\ args.content_format = <<"wiki">> /\ args.enable_heading_anchors
    /\ ~ calls[1].arg.enable_heading_anchors

\* a markdown page updated with heading anchors asked for
C19_WitnessMarkdown ==
    /\ CreateOrUpdateCalled /\ tool = "update_page"
    /\ args.content_format = <<"markdown">> /\ args.enable_heading_anchors
    /\ calls[1].arg.enable_heading_anchors /\ calls[1].arg.is_markdown

\* a storage page updated
C19_WitnessStorage ==
    /\ CreateOrUpdateCalled /\ tool = "update_page"
    /\ args.content_format = <<"storage">>
    /\ calls[1].arg.content_representation.t = "str"

\* get_page has answered
GetPageAnswered == tool = "get_page" /\ pc = "done"

\* C20: when get_page resolves by page_id, an exception of get_page_content
\* is returned as {error: "Failed to retrieve page by ID '<id>': <e>"} and
\* nothing is raised; when it resolves by title and space_key, an exception
\* of get_page_by_title propagates to the caller.  get_page raises only for
\* the validation error or for a failure of the title lookup.
C20_GetPageFailurePaths ==
    GetPageAnswered =>
        /\ (calls # <<>> /\ calls[1].op = "get_page_content" /\ calls[1].status = "fail") =>
               ret = [kind |-> "returned",
                      payload |-> [error |-> <<"Failed to retrieve page by ID '">>
                                             \o calls[1].arg.page_id \o <<"': ">>
                                             \o calls[1].result.msg]]
        /\ (calls # <<>> /\ calls[1].op = "get_page_by_title" /\ calls[1].status = "fail") =>
               ret = [kind |-> "raised", exc |-> calls[1].result]
        /\ ret.kind = "raised" =>
               \/ calls = <<>> /\ ret.exc.type = "ValueError"
                  /\ ret.exc.msg =
                        <<"Either 'page_id' OR both 'title' and 'space_key' must be provided.">>
               \/ /\ Len(calls) = 1
                  /\ calls[1].op = "get_page_by_title"
                  /\ calls[1].status = "fail"

\* the lookup by ID of an integer page_id failed
C20_Witness ==
    /\ GetPageAnswered /\ calls # <<>>
    /\ args.page_id.t = "int"
    /\ calls[1].op = "get_page_content" /\ calls[1].status = "fail"
    /\ ret.kind = "returned"

\* the lookup by title failed
C20_WitnessTitle ==
    /\ GetPageAnswered /\ calls # <<>>
    /\ calls[1].op = "get_page_by_title" /\ calls[1].status = "fail"
    /\ ret.kind = "raised" /\ ret.exc.type = "MCPAtlassianAuthenticationError"

\* no identifier was given
C20_WitnessValidation ==
    /\ GetPageAnswered /\ calls = <<>> /\ ret.kind = "raised"

(***************************************************************************)
(* Properties of move_page_position.                                       *)
(***************************************************************************)
\* move_page_position has answered a call that reached the fetcher
MoveAnswered == tool = "move_page_position" /\ pc = "done" /\ calls # <<>>

SuccessfullyMoved(page_id, position, target_id) ==
    <<"Successfully moved page ">> \o page_id \o <<" to position '">> \o position
        \o <<"' relative to ">> \o target_id

\* C21: in every response of move_page_position the message "Successfully
\* moved page <page_id> to position '<position>' relative to <target_id>" is
\* present only when success is true; a response with success = false (the
\* fetcher returned false, raised a ValueError or raised any other exception)
\* carries an error or failure description instead, and the tool does not
\* raise.
C21_MovedMessageOnlyOnSuccess ==
    MoveAnswered =>
        /\ ret.kind = "returned"
        /\ "success" \in DOMAIN ret.payload
        /\ ("message" \in DOMAIN ret.payload
              /\ ret.payload.message
                    = SuccessfullyMoved(args.page_id, args.position, args.target_id))
               => ret.payload.success
        /\ ~ ret.payload.success => "error" \in DOMAIN ret.payload

\* the fetcher returned False and the response says the page was moved
C21_FalseResultSaysMoved ==
    /\ MoveAnswered
    /\ calls[1].status = "ok" /\ ~ calls[1].result.v
    /\ ret.kind = "returned" /\ ~ ret.payload.success
    /\ ret.payload.message = SuccessfullyMoved(args.page_id, args.position, args.target_id)

\* apart from a false result of the fetcher, the responses are as C21 says
C21_HoldsUnlessFetcherReturnsFalse ==
    (MoveAnswered /\ ~ (calls[1].status = "ok" /\ ~ calls[1].result.v)) =>
        /\ ret.kind = "returned"
        /\ ("message" \in DOMAIN ret.payload) => ret.payload.success
        /\ ~ ret.payload.success => "error" \in DOMAIN ret.payload

====
